---------------------------- MODULE Spec2Model ----------------------------
(***************************************************************************)
(* A model of analysis_pipeline.py: the resident-feedback pipeline.        *)
(*                                                                         *)
(*   classify_topic   ordered keyword rules over the lower-cased text      *)
(*   get_sentiment    three-way bucketing of the polarity score            *)
(*   main             load/enrich, charts, executive summary, PDF          *)
(*                                                                         *)
(* Texts are sequences of one-character strings, so that lower-casing and  *)
(* the substring test `kw in text` are computed as Python computes them.   *)
(* Polarity, a float in [-1.0, 1.0], is counted in hundredths.             *)
(***************************************************************************)
EXTENDS Integers, Sequences, FiniteSets, TLC

VARIABLES
    file,       \* sample_feedback.csv: whether it exists, and its rows
    lexicon,    \* TextBlob's polarity for each text of the file (hundredths)
    pc,         \* where main() is
    df,         \* the data frame load_and_process_data returned
    charts,     \* the chart files written under reports/charts
    narrative,  \* what generate_executive_summary returned
    pdf,        \* whether reports/Executive_Summary.pdf was written
    exc,        \* the exception that ended main(), NoException if none
    out,        \* the lines printed so far
    calls,      \* the functions main() has called, in order
    text,       \* classify_topic on its own: the argument
    topic,      \*                            the value returned
    polarity,   \* get_sentiment on its own: the polarity of its argument
    sentiment   \*                           the value returned

vars == <<file, lexicon, pc, df, charts, narrative, pdf, exc, out, calls,
          text, topic, polarity, sentiment>>

\* The most chunks a text handed to classify_topic is built from.
MaxChunks == 3
\* The most rows of the data file.
MaxRecords == 3
\* The most rows of a frame handed to generate_executive_summary.
MaxRows == 3

---------------------------------------------------------------------------
(* Characters and str.lower()                                              *)

UpperCase ==
    <<"A","B","C","D","E","F","G","H","I","J","K","L","M","N","O","P","Q","R","S","T","U","V","W","X","Y","Z">>

LowerCase ==
    <<"a","b","c","d","e","f","g","h","i","j","k","l","m","n","o","p","q","r","s","t","u","v","w","x","y","z">>

\* str.lower() on one character: the upper-case letters and their lower case.
lowerOf == [c \in {UpperCase[i] : i \in DOMAIN UpperCase} |->
               LowerCase[CHOOSE i \in DOMAIN UpperCase : UpperCase[i] = c]]

lowerChar(c) == IF c \in DOMAIN lowerOf THEN lowerOf[c] ELSE c

lower(s) == [i \in 1..Len(s) |-> lowerChar(s[i])]

\* Python's `kw in s` for strings: kw occurs in s as a contiguous substring.
In(kw, s) ==
    \E i \in 1..(Len(s) - Len(kw) + 1) : SubSeq(s, i, i + Len(kw) - 1) = kw

---------------------------------------------------------------------------
(* classify_topic                                                          *)

KwParks ==
    { <<"p","a","r","k">>,
      <<"p","l","a","y","g","r","o","u","n","d">>,
      <<"l","i","b","r","a","r","y">>,
      <<"p","r","o","g","r","a","m">>,
      <<"c","o","m","m","u","n","i","t","y"," ","c","e","n","t","e","r">> }

KwSanitation ==
    { <<"t","r","a","s","h">>,
      <<"r","e","c","y","c","l","i","n","g">>,
      <<"p","i","c","k","u","p">>,
      <<"s","w","e","e","p","i","n","g">> }

KwTransportation ==
    { <<"p","o","t","h","o","l","e">>,
      <<"r","o","a","d">>,
      <<"t","r","a","f","f","i","c">>,
      <<"s","t","r","e","e","t">>,
      <<"c","r","o","s","s","w","a","l","k">> }

KwDevelopment ==
    { <<"z","o","n","i","n","g">>,
      <<"p","e","r","m","i","t">>,
      <<"c","o","n","s","t","r","u","c","t","i","o","n">>,
      <<"l","i","c","e","n","s","e">> }

KwWater ==
    { <<"b","i","l","l">>,
      <<"m","a","i","n"," ","b","r","e","a","k">>,
      <<"q","u","a","l","i","t","y">>,
      <<"s","e","w","e","r">> }

KwSafety ==
    { <<"p","o","l","i","c","e">>,
      <<"f","i","r","e">>,
      <<"o","f","f","i","c","e","r">>,
      <<"e","m","e","r","g","e","n","c","y">> }

KwCode ==
    { <<"y","a","r","d">>,
      <<"n","o","i","s","e">>,
      <<"v","e","h","i","c","l","e">> }

\* The rules in the order classify_topic tests them.
Rules ==
    << [label |-> "Parks, Rec & Library",          keywords |-> KwParks],
       [label |-> "Public Works - Sanitation",     keywords |-> KwSanitation],
       [label |-> "Public Works - Transportation", keywords |-> KwTransportation],
       [label |-> "Community Development",         keywords |-> KwDevelopment],
       [label |-> "Water Resources",               keywords |-> KwWater],
       [label |-> "Public Safety",                 keywords |-> KwSafety],
       [label |-> "Code Enforcement",              keywords |-> KwCode] >>

DefaultTopic == "General Inquiry"

\* any(kw in text for kw in [...]) for the i-th rule
anyKw(i, t) == \E kw \in Rules[i].keywords : In(kw, t)

\* Variant of the if-chain: the rules are tested last to first.
RECURSIVE firstRule_LastWins(_, _)
firstRule_LastWins(t, i) ==
    LET j == Len(Rules) + 1 - i
    IN  IF i > Len(Rules) THEN DefaultTopic
        ELSE IF anyKw(j, t) THEN Rules[j].label
        ELSE firstRule_LastWins(t, i + 1)

\* Variant of the if-chain: the final return is missing.
RECURSIVE firstRule_NoDefault(_, _)
firstRule_NoDefault(t, i) ==
    IF i > Len(Rules) THEN "None"
    ELSE IF anyKw(i, t) THEN Rules[i].label
    ELSE firstRule_NoDefault(t, i + 1)

\* The chain of `if any(...): return label` from the i-th rule on, then the
\* final `return 'General Inquiry'`.
RECURSIVE firstRule(_, _)
firstRule(t, i) ==
    IF i > Len(Rules) THEN DefaultTopic
    ELSE IF anyKw(i, t) THEN Rules[i].label
    ELSE firstRule(t, i + 1)

classify_topic(s) == firstRule(lower(s), 1)

---------------------------------------------------------------------------
(* get_sentiment                                                           *)

\* TextBlob(text).sentiment.polarity lies in [-1.0, 1.0]: -100..100 hundredths.
Polarities == -100..100

\* The thresholds 0.1 and -0.1, in hundredths.
PositiveAbove == 10
NegativeBelow == -10

\* Variant of the bucketing: the comparisons are not strict.
bucket_Inclusive(p) ==
    IF p >= PositiveAbove THEN "Positive"
    ELSE IF p <= NegativeBelow THEN "Negative"
    ELSE "Neutral"

\* The three returns of get_sentiment, on the polarity of its text.
bucket(p) ==
    IF p > PositiveAbove THEN "Positive"
    ELSE IF p < NegativeBelow THEN "Negative"
    ELSE "Neutral"

\* TextBlob scores a text in which it finds nothing to assess, the empty
\* text among them, 0.0; any other text has some polarity of the range.
polarityOf(s) == IF s = <<>> THEN {0} ELSE Polarities

\* get_sentiment(text), with lex[text] the polarity TextBlob gives the text.
get_sentiment(s, lex) == bucket(lex[s])

---------------------------------------------------------------------------
(* The data file                                                           *)

\* feedback_text cells of the sample file.
SampleTexts ==
    { <<"L","o","v","e","d"," ","t","h","e"," ","p","a","r","k">>,
      <<"T","r","a","s","h"," ","m","i","s","s","e","d">> }

\* timestamp cells of the sample file; the last one is no date.
TimestampCells == {"2025-01-15", "2025-02-01", "2025-03-10", "next week"}

\* The polarities TextBlob may give the sample texts.
PolaritySamples == {-50, 5, 50}

Row == [timestamp : TimestampCells, feedback_text : SampleTexts]

RECURSIVE SeqsUpTo(_, _)
SeqsUpTo(S, n) ==
    IF n = 0 THEN {<<>>}
    ELSE LET shorter == SeqsUpTo(S, n - 1)
         IN  shorter \cup {Append(q, x) : q \in {r \in shorter : Len(r) = n - 1}, x \in S}

Files ==
    {[exists |-> FALSE, rows |-> <<>>]}
        \cup {[exists |-> TRUE, rows |-> r] : r \in SeqsUpTo(Row, MaxRecords)}

\* pd.to_datetime on one cell: whether it parses, and the month it falls in.
parses(cell) == cell \in {"2025-01-15", "2025-02-01", "2025-03-10"}

monthOf(cell) ==
    CASE cell = "2025-01-15" -> 1
      [] cell = "2025-02-01" -> 2
      [] cell = "2025-03-10" -> 3

MonthName ==
    <<"January", "February", "March", "April", "May", "June", "July",
      "August", "September", "October", "November", "December">>

---------------------------------------------------------------------------
(* pandas: value_counts, resample, idxmax                                  *)

Range(s) == {s[i] : i \in DOMAIN s}

countOf(s, x) == Cardinality({i \in DOMAIN s : s[i] = x})

\* The distinct values of s in the order of their first appearance.
RECURSIVE uniques(_)
uniques(s) ==
    IF s = <<>> THEN <<>>
    ELSE LET u == uniques(SubSeq(s, 1, Len(s) - 1))
             x == s[Len(s)]
         IN  IF x \in Range(u) THEN u ELSE Append(u, x)

\* e is put behind every entry whose count is not smaller: ties keep their order.
insertDesc(sorted, e) ==
    LET ahead == {i \in DOMAIN sorted : sorted[i].count >= e.count}
        k == Cardinality(ahead)
    IN  SubSeq(sorted, 1, k) \o <<e>> \o SubSeq(sorted, k + 1, Len(sorted))

RECURSIVE sortDesc(_)
sortDesc(es) ==
    IF es = <<>> THEN <<>>
    ELSE insertDesc(sortDesc(SubSeq(es, 1, Len(es) - 1)), es[Len(es)])

\* Series.value_counts(): one entry per distinct value, counted in the order
\* of first appearance, then sorted by descending count.
value_counts(s) ==
    LET u == uniques(s)
    IN  sortDesc([i \in DOMAIN u |-> [key |-> u[i], count |-> countOf(s, u[i])]])

\* resample('M').size(): one bin per calendar month from the first month of
\* the data to the last, empty months included, in chronological order.
resampleMonthly(months) ==
    LET lo == CHOOSE m \in Range(months) : \A n \in Range(months) : m <= n
        hi == CHOOSE m \in Range(months) : \A n \in Range(months) : m >= n
    IN  [i \in 1..(hi - lo + 1) |->
            [month |-> lo + i - 1, size |-> countOf(months, lo + i - 1)]]

\* Variant of idxmax: the last bin holding the maximum.
RECURSIVE argmax_Last(_, _, _)
argmax_Last(bins, i, best) ==
    IF i > Len(bins) THEN best
    ELSE argmax_Last(bins, i + 1, IF bins[i].size >= bins[best].size THEN i ELSE best)

\* The scan of idxmax: the first bin holding the maximum.
RECURSIVE argmax(_, _, _)
argmax(bins, i, best) ==
    IF i > Len(bins) THEN best
    ELSE argmax(bins, i + 1, IF bins[i].size > bins[best].size THEN i ELSE best)

idxmax(bins) == bins[argmax(bins, 1, 1)].month

---------------------------------------------------------------------------
(* main() and the four steps it calls                                      *)

NoFrame == [isNone |-> TRUE, rows |-> <<>>]
NoNarrative == [produced |-> FALSE]
NoException == [type |-> "None", line |-> 0]

ChartFiles ==
    <<"volume_by_topic.png", "sentiment_breakdown.png", "volume_timeseries.png">>

\* The lines of the three plt.savefig calls.
SavefigLine == <<63, 75, 87>>

\* One row of the frame with the columns load_and_process_data adds.
enrich(row, lex) ==
    [timestamp     |-> monthOf(row.timestamp),
     feedback_text |-> row.feedback_text,
     topic         |-> classify_topic(row.feedback_text),
     sentiment     |-> get_sentiment(row.feedback_text, lex),
     month         |-> monthOf(row.timestamp)]

column(rows, name) == [i \in DOMAIN rows |-> rows[i][name]]

\* rows[rows.sentiment == 'Negative']
RECURSIVE negatives(_)
negatives(rows) ==
    IF rows = <<>> THEN <<>>
    ELSE LET rest == negatives(SubSeq(rows, 1, Len(rows) - 1))
             r == rows[Len(rows)]
         IN  IF r.sentiment = "Negative" THEN Append(rest, r) ELSE rest

\* value_counts(normalize=True) * 100 under the format .1f: tenths of a percent.
percentTenths(n, total) == (2000 * n + total) \div (2 * total)

\* Variant of the load: rows whose timestamp does not parse are dropped (errors='coerce').
load_SkipsBadRows(f, lex) ==
    IF ~f.exists
    THEN [df |-> NoFrame, exc |-> NoException,
          printed |-> <<"ERROR: Data file not found">>]
    ELSE LET good == SelectSeq(f.rows, LAMBDA r : parses(r.timestamp))
         IN  [df |-> [isNone |-> FALSE, rows |-> [i \in DOMAIN good |-> enrich(good[i], lex)]],
              exc |-> NoException, printed |-> <<>>]

\* Variant of the load: a missing file yields an empty frame.
load_EmptyOnMissing(f, lex) ==
    IF ~f.exists
    THEN [df |-> [isNone |-> FALSE, rows |-> <<>>], exc |-> NoException, printed |-> <<>>]
    ELSE IF \E i \in DOMAIN f.rows : ~parses(f.rows[i].timestamp)
    THEN [df |-> NoFrame, exc |-> [type |-> "ValueError", line |-> 24], printed |-> <<>>]
    ELSE [df |-> [isNone |-> FALSE, rows |-> [i \in DOMAIN f.rows |-> enrich(f.rows[i], lex)]],
          exc |-> NoException, printed |-> <<>>]

\* load_and_process_data: what it returns, raises and prints.  Only
\* FileNotFoundError is caught; pd.to_datetime raises a ValueError for the
\* whole column when one cell does not parse.
load_and_process_data(f, lex) ==
    IF ~f.exists
    THEN [df |-> NoFrame, exc |-> NoException,
          printed |-> <<"ERROR: Data file not found">>]
    ELSE IF \E i \in DOMAIN f.rows : ~parses(f.rows[i].timestamp)
    THEN [df |-> NoFrame, exc |-> [type |-> "ValueError", line |-> 24], printed |-> <<>>]
    ELSE [df |-> [isNone |-> FALSE, rows |-> [i \in DOMAIN f.rows |-> enrich(f.rows[i], lex)]],
          exc |-> NoException, printed |-> <<>>]

\* generate_executive_summary: the values its two texts are formatted from,
\* or the exception raised on the way.  index[0] of an empty ranking raises
\* IndexError.
generate_executive_summary(rows) ==
    LET topic_counts == value_counts(column(rows, "topic"))
        sentiment_positive == countOf(column(rows, "sentiment"), "Positive")
        neg_sentiment_by_topic == value_counts(column(negatives(rows), "topic"))
        monthly_volume == resampleMonthly(column(rows, "timestamp"))
    IN  IF topic_counts = <<>>
        THEN [narrative |-> NoNarrative, exc |-> [type |-> "IndexError", line |-> 126]]
        ELSE IF neg_sentiment_by_topic = <<>>
        THEN [narrative |-> NoNarrative, exc |-> [type |-> "IndexError", line |-> 132]]
        ELSE [narrative |->
                 [produced          |-> TRUE,
                  total_comments    |-> Len(rows),
                  overall_positive  |-> percentTenths(sentiment_positive, Len(rows)),
                  most_common_topic |-> topic_counts[1].key,
                  worst_topic       |-> neg_sentiment_by_topic[1].key,
                  worst_topic_count |-> neg_sentiment_by_topic[1].count,
                  peak_month        |-> MonthName[idxmax(monthly_volume)]],
              exc |-> NoException]

Idle ==
    /\ file = [exists |-> FALSE, rows |-> <<>>]
    /\ lexicon = [t \in SampleTexts |-> 0]
    /\ charts = {}
    /\ pdf = FALSE
    /\ out = <<>>
    /\ calls = <<>>

Init ==
    /\ file \in Files
    /\ lexicon \in [SampleTexts -> PolaritySamples]
    /\ pc = "start"
    /\ df = NoFrame
    /\ charts = {}
    /\ narrative = NoNarrative
    /\ pdf = FALSE
    /\ exc = NoException
    /\ out = <<>>
    /\ calls = <<>>
    /\ text = <<>>
    /\ topic = "None"
    /\ polarity = 0
    /\ sentiment = "None"

\* main(), lines 194-200: the banner, the load, and the return on None.
LoadAndProcessData ==
    /\ pc = "start"
    /\ LET r == load_and_process_data(file, lexicon)
       IN  /\ df' = r.df
           /\ exc' = r.exc
           /\ calls' = Append(calls, "load_and_process_data")
           /\ IF r.exc # NoException
              THEN /\ pc' = "crashed"
                   /\ out' = out \o <<"--- Starting ---">> \o r.printed
              ELSE IF r.df.isNone
              THEN /\ pc' = "returned"
                   /\ out' = out \o <<"--- Starting ---">> \o r.printed
              ELSE /\ pc' = "loaded"
                   /\ out' = out \o <<"--- Starting ---">> \o r.printed \o <<"Step 1">>
    /\ UNCHANGED <<file, lexicon, charts, narrative, pdf, text, topic, polarity, sentiment>>

\* Variant of the step: a failed chart does not stop main().
CreateVisualizations_SwallowsError ==
    /\ pc = "loaded"
    /\ calls' = Append(calls, "create_visualizations")
    /\ \E saved \in 0..Len(ChartFiles) :
          /\ charts' = {ChartFiles[i] : i \in 1..saved}
          /\ pc' = "charted"
          /\ out' = Append(out, "Step 2")
          /\ exc' = exc
    /\ UNCHANGED <<file, lexicon, df, narrative, pdf, text, topic, polarity, sentiment>>

\* main(), lines 202-203.  The charts are rendered and saved one after the
\* other by matplotlib; rendering or saving may raise at any of them, and the
\* files saved before stay on disk.
CreateVisualizations ==
    /\ pc = "loaded"
    /\ calls' = Append(calls, "create_visualizations")
    /\ \E saved \in 0..Len(ChartFiles) :
          /\ charts' = {ChartFiles[i] : i \in 1..saved}
          /\ IF saved = Len(ChartFiles)
             THEN /\ pc' = "charted"
                  /\ out' = Append(out, "Step 2")
                  /\ exc' = exc
             ELSE /\ pc' = "crashed"
                  /\ out' = out
                  /\ exc' = [type |-> "Exception", line |-> SavefigLine[saved + 1]]
    /\ UNCHANGED <<file, lexicon, df, narrative, pdf, text, topic, polarity, sentiment>>

\* main(), lines 205-206.
GenerateExecutiveSummary ==
    /\ pc = "charted"
    /\ calls' = Append(calls, "generate_executive_summary")
    /\ LET r == generate_executive_summary(df.rows)
       IN  /\ narrative' = r.narrative
           /\ exc' = r.exc
           /\ IF r.exc # NoException
              THEN /\ pc' = "crashed"
                   /\ out' = out
              ELSE /\ pc' = "summarized"
                   /\ out' = Append(out, "Step 3")
    /\ UNCHANGED <<file, lexicon, df, charts, pdf, text, topic, polarity, sentiment>>

\* main(), lines 208-211.  pdf.output may fail to write the file.
CreatePdfReport ==
    /\ pc = "summarized"
    /\ calls' = Append(calls, "create_pdf_report")
    /\ \E written \in BOOLEAN :
          /\ pdf' = written
          /\ IF written
             THEN /\ pc' = "done"
                  /\ out' = out \o <<"Step 4", "--- Pipeline Complete ---">>
                  /\ exc' = exc
             ELSE /\ pc' = "crashed"
                  /\ out' = out
                  /\ exc' = [type |-> "OSError", line |-> 188]
    /\ UNCHANGED <<file, lexicon, df, charts, narrative, text, topic, polarity, sentiment>>

Next ==
    \/ LoadAndProcessData
    \/ CreateVisualizations
    \/ GenerateExecutiveSummary
    \/ CreatePdfReport

Spec == Init /\ [][Next]_vars

---------------------------------------------------------------------------
(* classify_topic and get_sentiment on their own                           *)

Chunks ==
    { <<"p","a","r","k">>,
      <<"L","i","b","r","a","r","y">>,
      <<"T","R","A","S","H">>,
      <<"s","t","r","e","e","t">>,
      <<"S","w","e","e","p","i","n","g">>,
      <<"p","e","r","m","i","t">>,
      <<"M","a","i","n"," ","B","r","e","a","k">>,
      <<"P","o","l","i","c","e">>,
      <<"n","o","i","s","e">>,
      <<" ">>,
      <<"h","e","l","l","o">> }

\* The texts made of at most n chunks, the empty text among them.
RECURSIVE TextsOf(_)
TextsOf(n) ==
    IF n = 0 THEN {<<>>}
    ELSE LET shorter == TextsOf(n - 1)
         IN  shorter \cup {t \o c : t \in shorter, c \in Chunks}

InitClassify ==
    /\ Idle
    /\ df = NoFrame
    /\ narrative = NoNarrative
    /\ exc = NoException
    /\ pc = "classify"
    /\ text \in TextsOf(MaxChunks)
    /\ topic = "None"
    /\ polarity = 0
    /\ sentiment = "None"

ClassifyTopic ==
    /\ pc = "classify"
    /\ topic' = classify_topic(text)
    /\ pc' = "classified"
    /\ UNCHANGED <<file, lexicon, df, charts, narrative, pdf, exc, out, calls,
                   text, polarity, sentiment>>

SpecClassify == InitClassify /\ [][ClassifyTopic]_vars

InitSentiment ==
    /\ Idle
    /\ df = NoFrame
    /\ narrative = NoNarrative
    /\ exc = NoException
    /\ pc = "score"
    /\ text \in SampleTexts \cup {<<>>}
    /\ topic = "None"
    /\ polarity \in polarityOf(text)
    /\ sentiment = "None"

GetSentiment ==
    /\ pc = "score"
    /\ sentiment' = get_sentiment(text, [t \in {text} |-> polarity])
    /\ pc' = "scored"
    /\ UNCHANGED <<file, lexicon, df, charts, narrative, pdf, exc, out, calls,
                   text, topic, polarity>>

SpecSentiment == InitSentiment /\ [][GetSentiment]_vars

---------------------------------------------------------------------------
(* generate_executive_summary on its own                                   *)

\* The enriched rows: a sample text, a timestamp that parsed, and the label
\* of any polarity TextBlob may have given the text of that row.
EnrichedRows ==
    {enrich(r, [t \in SampleTexts |-> p]) :
        r \in {q \in Row : parses(q.timestamp)}, p \in PolaritySamples}

InitSummary ==
    /\ Idle
    /\ pc = "summarize"
    /\ df \in {[isNone |-> FALSE, rows |-> r] : r \in SeqsUpTo(EnrichedRows, MaxRows)}
    /\ narrative = NoNarrative
    /\ exc = NoException
    /\ text = <<>>
    /\ topic = "None"
    /\ polarity = 0
    /\ sentiment = "None"

\* The call generate_executive_summary(df): it returns, or it raises.
Summarize ==
    /\ pc = "summarize"
    /\ LET r == generate_executive_summary(df.rows)
       IN  /\ narrative' = r.narrative
           /\ exc' = r.exc
           /\ pc' = IF r.exc # NoException THEN "raised" ELSE "summarized"
    /\ UNCHANGED <<file, lexicon, df, charts, pdf, out, calls,
                   text, topic, polarity, sentiment>>

SpecSummary == InitSummary /\ [][Summarize]_vars

---------------------------------------------------------------------------
(* What the claims speak of                                                *)

\* The text holds a keyword of the i-th rule as a substring, in any letter case.
Matches(i, s) ==
    \E kw \in Rules[i].keywords :
        \E at \in 0..(Len(s) - Len(kw)) :
            \A k \in 1..Len(kw) : lowerChar(s[at + k]) = kw[k]

\* The eight labels as the code spells them.
TopicLabels ==
    {"Parks, Rec & Library", "Public Works - Sanitation",
     "Public Works - Transportation", "Community Development", "Water Resources",
     "Public Safety", "Code Enforcement", "General Inquiry"}

\* The eight labels as the glossary spells them.
GlossaryTopicLabels ==
    {"Parks Rec & Library", "Public Works - Sanitation",
     "Public Works - Transportation", "Community Development", "Water Resources",
     "Public Safety", "Code Enforcement", "General Inquiry"}

\* The position of a label in the declaration order; the default comes last.
DeclaredAt(label) ==
    IF \E i \in DOMAIN Rules : Rules[i].label = label
    THEN CHOOSE i \in DOMAIN Rules : Rules[i].label = label
    ELSE Len(Rules) + 1

\* generate_executive_summary was called and has returned or raised.
SummaryEnded == pc \in {"summarized", "raised"}

NoNegativeRecord == \A i \in DOMAIN df.rows : df.rows[i].sentiment # "Negative"

\* The number of records of topic t, and of Negative records of topic t.
TopicCount(t) == Cardinality({i \in DOMAIN df.rows : df.rows[i].topic = t})
NegativeCount(t) ==
    Cardinality({i \in DOMAIN df.rows :
                    df.rows[i].topic = t /\ df.rows[i].sentiment = "Negative"})

\* The number of records of month m.
MonthCount(m) == Cardinality({i \in DOMAIN df.rows : df.rows[i].month = m})

SomeBadTimestamp == \E i \in DOMAIN file.rows : ~parses(file.rows[i].timestamp)

StepOrder ==
    <<"load_and_process_data", "create_visualizations",
      "generate_executive_summary", "create_pdf_report">>

---------------------------------------------------------------------------
(* The claims                                                              *)

\* C1: run on a non-empty record set without a Negative record,
\* generate_executive_summary does not fail and returns a text with the
\* neutral "no significant negative-sentiment concentration" statement.
C1_GracefulWithoutNegatives ==
    (SummaryEnded /\ df.rows # <<>> /\ NoNegativeRecord)
        => /\ exc = NoException
           /\ narrative.produced
           /\ narrative.worst_topic = "no significant negative-sentiment concentration found"

\* C2, as claimed: for every pair of rules A before B, a text holding a
\* keyword of A and a keyword of B is classified as A.
C2_EarlierOfEveryPair ==
    pc = "classified" =>
        \A a, b \in DOMAIN Rules :
            (a < b /\ Matches(a, text) /\ Matches(b, text)) => topic = Rules[a].label

\* C2, amended: for every pair of rules A before B, a text holding a keyword
\* of A and a keyword of B is never classified as B, and is classified as A
\* unless it also holds a keyword of a rule declared before A: the label is
\* that of the earliest declared rule with a keyword in the text.
C2_EarliestMatchingRule ==
    pc = "classified" =>
        \A a, b \in DOMAIN Rules :
            (a < b /\ Matches(a, text) /\ Matches(b, text)) =>
                /\ topic # Rules[b].label
                /\ (\A c \in 1..(a - 1) : ~Matches(c, text)) => topic = Rules[a].label

\* A text with a keyword of the first rule and one of the second, classified.
C2_Witness ==
    /\ pc = "classified"
    /\ Matches(1, text)
    /\ Matches(2, text)
    /\ topic = "Parks, Rec & Library"

\* C3, as claimed: classify_topic returns, for every text, one of the eight
\* labels of the glossary, and General Inquiry when no keyword matches.
C3_GlossaryLabel ==
    /\ pc = "classify" => ENABLED ClassifyTopic
    /\ pc = "classified" =>
          /\ topic \in GlossaryTopicLabels
          /\ (\A i \in DOMAIN Rules : ~Matches(i, text)) => topic = "General Inquiry"

\* C3, amended: classify_topic returns, for every text, one of the eight
\* labels 'Parks, Rec & Library' (spelled with the comma), Public Works -
\* Sanitation, Public Works - Transportation, Community Development, Water
\* Resources, Public Safety, Code Enforcement, General Inquiry; and General
\* Inquiry when no keyword matches, as for the empty text.
C3_TotalAndClosed ==
    /\ pc = "classify" => ENABLED ClassifyTopic
    /\ pc = "classified" =>
          /\ topic \in TopicLabels
          /\ (\A i \in DOMAIN Rules : ~Matches(i, text)) => topic = "General Inquiry"

\* The empty text, classified.
C3_Witness ==
    /\ pc = "classified"
    /\ text = <<>>
    /\ topic = "General Inquiry"

\* C4: the most common topic reported is, among the topics of maximum count,
\* the earliest declared one, and so is the worst topic among the Negative
\* records, whatever the order of the records.
C4_TiesByDeclarationOrder ==
    narrative.produced =>
        /\ \A t \in TopicLabels :
               \/ TopicCount(t) < TopicCount(narrative.most_common_topic)
               \/ /\ TopicCount(t) = TopicCount(narrative.most_common_topic)
                  /\ DeclaredAt(narrative.most_common_topic) <= DeclaredAt(t)
        /\ \A t \in TopicLabels :
               \/ NegativeCount(t) < NegativeCount(narrative.worst_topic)
               \/ /\ NegativeCount(t) = NegativeCount(narrative.worst_topic)
                  /\ DeclaredAt(narrative.worst_topic) <= DeclaredAt(t)

\* C5: get_sentiment returns Positive exactly when polarity > 0.1, Negative
\* exactly when polarity < -0.1 and Neutral otherwise; 0.1, -0.1 and the 0.0
\* of the empty text are Neutral.
C5_StrictThresholds ==
    pc = "scored" =>
        /\ sentiment \in {"Positive", "Neutral", "Negative"}
        /\ sentiment = "Positive" <=> polarity > 10
        /\ sentiment = "Negative" <=> polarity < -10
        /\ sentiment = "Neutral" <=> (-10 <= polarity /\ polarity <= 10)
        /\ text = <<>> => sentiment = "Neutral"

\* A polarity of exactly 0.1, scored.
C5_Witness ==
    /\ pc = "scored"
    /\ polarity = 10
    /\ sentiment = "Neutral"

\* C6: on an empty record set the aggregation fails with the distinct error
\* EmptyDataset and returns no narrative.
C6_EmptyDatasetError ==
    (SummaryEnded /\ df.rows = <<>>)
        => /\ exc.type = "EmptyDataset"
           /\ ~narrative.produced

C8_MissingFileHalts ==
    (~file.exists /\ pc # "start") =>
        /\ pc = "returned"
        /\ calls = <<"load_and_process_data">>
        /\ df = NoFrame
        /\ charts = {}
        /\ ~narrative.produced
        /\ ~pdf
        /\ out = <<"--- Starting ---", "ERROR: Data file not found">>

\* main() has returned on a missing file.
C8_Witness ==
    /\ ~file.exists
    /\ pc = "returned"

C10_StepsInOrder ==
    /\ Len(calls) <= Len(StepOrder)
    /\ calls = SubSeq(StepOrder, 1, Len(calls))
    /\ Len(calls) >= 2 => (~df.isNone /\ \E i \in DOMAIN out : out[i] = "Step 1")
    /\ Len(calls) >= 3 =>
          (charts = Range(ChartFiles) /\ \E i \in DOMAIN out : out[i] = "Step 2")
    /\ Len(calls) >= 4 => (narrative.produced /\ \E i \in DOMAIN out : out[i] = "Step 3")
    /\ pdf => (charts = Range(ChartFiles) /\ narrative.produced /\ exc = NoException)
    /\ pc = "crashed" => (exc # NoException /\ ~pdf)

\* A complete run: the PDF is written.
C10_Witness ==
    /\ pc = "done"
    /\ pdf
    /\ calls = StepOrder

===========================================================================
